---- MODULE Spec2Model ----
(***************************************************************************)
(* Model of src/PL/EmissionSpectrum.py: the numerical primitives of class  *)
(* Photoluminescence (IV, Fourier, InverseFourier, Trapezoidal, ...), the  *)
(* Huang-Rhys engine (ConfigCoordinates, PartialHR) and the straight-line  *)
(* pipeline CalculateSpectrum.                                             *)
(*                                                                         *)
(* Real numbers are exact rationals <<n, d>> (d > 0, lowest terms).  The   *)
(* constant np.pi is the rational PI, used consistently, so that every     *)
(* cancellation of pi that happens in the program happens in the model.    *)
(* IV rounds: the length of np.arange is the ceiling of a rounded quotient, *)
(* so its arithmetic is binary floating point (Fl, round to nearest even)  *)
(* with MantBits significant bits in place of the 53 of float64.           *)
(* Array elements that the program computes with exp, sqrt on arguments    *)
(* that have no rational value are kept as terms ("sym" values); a value   *)
(* produced by a division by zero is the one value NonFinite (NaN / Inf).  *)
(***************************************************************************)
EXTENDS Integers, Sequences, FiniteSets, TLC

VARIABLES
  call, out,     \* a direct call of a primitive and its result
  pc,            \* CalculateSpectrum: the statement to execute next
  argv,          \* CalculateSpectrum: zpl, tmax, gamma
  files,         \* the contents of path_gs, path_es, path_phonon_band
  loc,           \* CalculateSpectrum: its local variables, <<>> while unassigned
  trace,         \* the calls CalculateSpectrum has made, in order
  err,           \* the exception that ended the run, "" if none
  ret            \* the returned tuple

runVars == <<pc, argv, files, loc, trace, err, ret>>
vars == <<call, out, runVars>>

----------------------------------------------------------------------------
(* Exact rational arithmetic (the program's float64 scalars).              *)

AbsInt(n) == IF n < 0 THEN -n ELSE n

RECURSIVE Gcd(_, _)
Gcd(a, b) == IF b = 0 THEN a ELSE Gcd(b, a % b)

Q(n, d) ==
  LET g == Gcd(AbsInt(n), AbsInt(d))
      s == IF d < 0 THEN -1 ELSE 1
  IN  <<(s * n) \div g, (s * d) \div g>>

QInt(n) == <<n, 1>>
QZero == <<0, 1>>
QOne == <<1, 1>>
QAdd(a, b) ==
  LET g == Gcd(a[2], b[2])
  IN  Q(a[1] * (b[2] \div g) + b[1] * (a[2] \div g), (a[2] \div g) * b[2])
QNeg(a) == <<-a[1], a[2]>>
QSub(a, b) == QAdd(a, QNeg(b))
QMul(a, b) ==
  LET x == Q(a[1], b[2])
      y == Q(b[1], a[2])
  IN  <<x[1] * y[1], x[2] * y[2]>>
QInv(a) == Q(a[2], a[1])
QDiv(a, b) == QMul(a, QInv(b))
QLt(a, b) == a[1] * b[2] < b[1] * a[2]
QLe(a, b) == a[1] * b[2] <= b[1] * a[2]
QAbs(a) == <<AbsInt(a[1]), a[2]>>
QCeil(a) == -((-a[1]) \div a[2])
QIsInt(a) == a[2] = 1

(* The largest integer of the model's arithmetic, and whether a product or *)
(* a sum of rationals stays within it                                     *)
MaxInt == 1073741823 * 2 + 1
MulFits(x, y) == y = 0 \/ AbsInt(x) <= MaxInt \div AbsInt(y)
QMulFits(a, b) == MulFits(a[1], b[1]) /\ MulFits(a[2], b[2])
QAddFits(a, b) ==
  LET g == Gcd(a[2], b[2])
  IN  /\ MulFits(a[1], b[2] \div g) /\ MulFits(b[1], a[2] \div g)
      /\ MulFits(a[2] \div g, b[2])
      /\ AbsInt(a[1] * (b[2] \div g)) <= MaxInt - AbsInt(b[1] * (a[2] \div g))

(* np.pi, a float *)
PI == Q(25, 8)

(* Binary floating point: the number of significant bits, and the float    *)
(* nearest to q (ties to even)                                             *)
MantBits == 8

RECURSIVE Pow2(_)
Pow2(k) == IF k = 0 THEN 1 ELSE 2 * Pow2(k - 1)

(* a > 0 scaled by a power of two into [2^(MantBits-1), 2^MantBits) *)
RECURSIVE Significand(_, _)
Significand(a, e) ==
  IF QLe(QInt(Pow2(MantBits)), a) THEN Significand(QDiv(a, QInt(2)), e + 1)
  ELSE IF QLt(a, QInt(Pow2(MantBits - 1))) THEN Significand(QMul(a, QInt(2)), e - 1)
  ELSE <<a, e>>

RoundEven(m) ==
  LET fl == m[1] \div m[2]
      twice == 2 * (m[1] - fl * m[2])
  IN  IF twice > m[2] \/ (twice = m[2] /\ fl % 2 = 1) THEN fl + 1 ELSE fl

Ldexp(mant, e) == IF e >= 0 THEN QInt(mant * Pow2(e)) ELSE Q(mant, Pow2(-e))

FlAbs(s) == Ldexp(RoundEven(s[1]), s[2])

Fl(q) ==
  IF q[1] = 0 THEN q
  ELSE IF q[1] < 0 THEN QNeg(FlAbs(Significand(QAbs(q), 0)))
  ELSE FlAbs(Significand(q, 0))

----------------------------------------------------------------------------
(* Results of a call: err = "" and the value, or the exception raised.     *)

Ok(v) == [err |-> "", val |-> v]
Raise(e) == [err |-> e, val |-> <<>>]

(* An array as a sequence value, each element evaluated once *)
Arr(f) == f \o <<>>

----------------------------------------------------------------------------
(* Array elements: complex numbers with rational parts ("num"), terms      *)
(* ("sym") and the non-finite value ("nan").  One record shape for all.    *)
(* A sum, product or quotient of numbers whose exact value does not fit    *)
(* the model's integers is kept as a term.                                 *)

VNum(re, im) == [k |-> "num", re |-> re, im |-> im, op |-> "", args |-> <<>>]
VReal(q) == VNum(q, QZero)
VSym(op, args) == [k |-> "sym", re |-> QZero, im |-> QZero, op |-> op, args |-> args]
NonFinite == [k |-> "nan", re |-> QZero, im |-> QZero, op |-> "", args |-> <<>>]
VZero == VReal(QZero)
VOne == VReal(QOne)
IsNum(v) == v.k = "num"
IsNaN(v) == v.k = "nan"

VAdd(a, b) ==
  IF IsNaN(a) \/ IsNaN(b) THEN NonFinite
  ELSE IF IsNum(a) /\ IsNum(b) /\ QAddFits(a.re, b.re) /\ QAddFits(a.im, b.im)
    THEN VNum(QAdd(a.re, b.re), QAdd(a.im, b.im))
  ELSE IF a = VZero THEN b
  ELSE IF b = VZero THEN a
  ELSE VSym("add", <<a, b>>)

VNeg(a) ==
  IF IsNaN(a) THEN NonFinite
  ELSE IF IsNum(a) THEN VNum(QNeg(a.re), QNeg(a.im))
  ELSE VSym("neg", <<a>>)

VSub(a, b) == VAdd(a, VNeg(b))

VMulFits(a, b) ==
  /\ QMulFits(a.re, b.re) /\ QMulFits(a.im, b.im)
  /\ QMulFits(a.re, b.im) /\ QMulFits(a.im, b.re)
  /\ QAddFits(QMul(a.re, b.re), QMul(a.im, b.im))
  /\ QAddFits(QMul(a.re, b.im), QMul(a.im, b.re))

VMul(a, b) ==
  IF IsNaN(a) \/ IsNaN(b) THEN NonFinite
  ELSE IF IsNum(a) /\ IsNum(b) /\ VMulFits(a, b)
    THEN VNum(QSub(QMul(a.re, b.re), QMul(a.im, b.im)),
              QAdd(QMul(a.re, b.im), QMul(a.im, b.re)))
  ELSE IF a = VOne THEN b
  ELSE IF b = VOne THEN a
  ELSE VSym("mul", <<a, b>>)

VDivFits(a, b) ==
  /\ VMulFits(a, b)
  /\ QMulFits(b.re, b.re) /\ QMulFits(b.im, b.im)
  /\ QAddFits(QMul(b.re, b.re), QMul(b.im, b.im))
  /\ LET den == QAdd(QMul(b.re, b.re), QMul(b.im, b.im))
     IN  den # QZero =>
           /\ QMulFits(QAdd(QMul(a.re, b.re), QMul(a.im, b.im)), QInv(den))
           /\ QMulFits(QSub(QMul(a.im, b.re), QMul(a.re, b.im)), QInv(den))

(* numpy division: a zero divisor gives NaN / Inf (a warning, no exception) *)
VDiv(a, b) ==
  IF IsNaN(a) \/ IsNaN(b) THEN NonFinite
  ELSE IF IsNum(a) /\ IsNum(b) /\ b.im = QZero /\ b.re # QZero
         /\ QMulFits(a.re, QInv(b.re)) /\ QMulFits(a.im, QInv(b.re))
    THEN VNum(QDiv(a.re, b.re), QDiv(a.im, b.re))
  ELSE IF IsNum(a) /\ IsNum(b) /\ b = VZero THEN NonFinite
  ELSE IF IsNum(a) /\ IsNum(b) /\ VDivFits(a, b)
    THEN LET den == QAdd(QMul(b.re, b.re), QMul(b.im, b.im))
         IN  IF den = QZero THEN NonFinite
             ELSE VNum(QDiv(QAdd(QMul(a.re, b.re), QMul(a.im, b.im)), den),
                       QDiv(QSub(QMul(a.im, b.re), QMul(a.re, b.im)), den))
  ELSE IF b = VOne THEN a
  ELSE VSym("div", <<a, b>>)

RECURSIVE VPow(_, _)
VPow(a, n) == IF n = 1 THEN a ELSE VMul(VPow(a, n - 1), a)

(* np.exp: exact at 0 and at i*m*pi/2, a term elsewhere *)
VExp(a) ==
  IF IsNaN(a) THEN NonFinite
  ELSE IF IsNum(a) /\ a.re = QZero /\ QIsInt(QDiv(QMul(QInt(2), a.im), PI))
    THEN LET m == QDiv(QMul(QInt(2), a.im), PI)[1] % 4
         IN  CASE m = 0 -> VOne
               [] m = 1 -> VNum(QZero, QOne)
               [] m = 2 -> VReal(QInt(-1))
               [] OTHER -> VNum(QZero, QInt(-1))
  ELSE VSym("exp", <<a>>)

IsSquare(n) == \E r \in 0..n : r * r = n
ISqrt(n) == CHOOSE r \in 0..n : r * r = n

(* np.sqrt of a non-negative real *)
VSqrt(q) ==
  IF IsSquare(q[1]) /\ IsSquare(q[2]) THEN VReal(Q(ISqrt(q[1]), ISqrt(q[2])))
  ELSE VSym("sqrt", <<VReal(q)>>)

(* np.sum of a sequence of elements (0.0 for the empty sequence) *)
RECURSIVE VSum(_)
VSum(s) == IF Len(s) = 0 THEN VZero ELSE VAdd(VSum(SubSeq(s, 1, Len(s) - 1)), s[Len(s)])

(* np.dot of two 1-D arrays of equal length *)
VDot(a, b) == VSum(Arr([i \in 1..Len(a) |-> VMul(a[i], b[i])]))

----------------------------------------------------------------------------
(* Photoluminescence.IV.  np.arange(start, stop, step) has                 *)
(* ceil((stop - start) / step) samples start + i*step, none if that is <= 0 *)

(* np.arange on floats: ceil((stop - start)/step) samples, sample i being  *)
(* start + i*delta with delta = (start + step) - start                     *)
ArangeOf(start, n, delta) ==
  Arr([i \in 1..(IF n > 0 THEN n ELSE 0) |->
         Fl(QAdd(start, Fl(QMul(QInt(i - 1), delta))))])

Arange(start, stop, step) ==
  ArangeOf(start, QCeil(Fl(QDiv(Fl(QSub(stop, start)), step))),
           Fl(QSub(Fl(QAdd(start, step)), start)))

(* div = (2*np.pi)/(2*rv_high) (line 112) *)
IVDiv(rv_high) == Fl(QDiv(Fl(QMul(QInt(2), PI)), Fl(QMul(QInt(2), rv_high))))

IV(iv_low, iv_high, rv_high) ==
  IF rv_high = QZero THEN Raise("ZeroDivisionError")
  ELSE Ok(Arange(iv_low, iv_high, IVDiv(rv_high)))

----------------------------------------------------------------------------
(* np.fft.fftfreq, np.argsort, np.fft.fft, np.fft.ifft *)

FftFreq(n, d) ==
  Arr([j \in 1..n |->
     QDiv(QInt(IF j - 1 <= (n - 1) \div 2 THEN j - 1 ELSE j - 1 - n), QMul(QInt(n), d))])

ArgSort(s) ==
  LET Rank(i) == 1 + Cardinality({m \in 1..Len(s) :
                        QLt(s[m], s[i]) \/ (s[m] = s[i] /\ m < i)})
  IN  Arr([j \in 1..Len(s) |-> CHOOSE i \in 1..Len(s) : Rank(i) = j])

(* exp(sign * 2*pi*i * m / n) *)
Twiddle(sign, m, n) ==
  VExp(VNum(QZero, QMul(QMul(QInt(sign * 2), PI), Q(m % n, n))))

Fft(x) ==
  Arr([k \in 1..Len(x) |->
     VSum(Arr([n \in 1..Len(x) |-> VMul(x[n], Twiddle(-1, (k - 1) * (n - 1), Len(x)))]))])

Ifft(x) ==
  Arr([n \in 1..Len(x) |->
     VMul(VReal(Q(1, Len(x))),
          VSum(Arr([k \in 1..Len(x) |-> VMul(x[k], Twiddle(1, (k - 1) * (n - 1), Len(x)))])))])

(* A float64 that is not finite (inf, nan) *)
QNonFinite == <<0, 0>>

(* The reciprocal axis of Fourier and InverseFourier (lines 127-130, 142-145): *)
(* rv = 2*pi*fftfreq(len(iv), div), then sort = argsort(rv), rv = rv[sort]     *)
SortedAxis(div, rv0, sort) ==
  [div |-> div, sort |-> sort, rv |-> Arr([j \in 1..Len(rv0) |-> rv0[sort[j]]])]

ScaledFreq(n, div) ==
  Arr([j \in 1..n |-> QMul(QMul(QInt(2), PI), FftFreq(n, div)[j])])

AxisOf(div, rv0) == SortedAxis(div, rv0, ArgSort(rv0))

ReciprocalAxis(iv) ==
  AxisOf(QSub(iv[2], iv[1]), ScaledFreq(Len(iv), QSub(iv[2], iv[1])))

(* div * F[sort] * exp(sign * 1j * rv * iv[0]) (lines 131-132, 146-147) *)
Shifted(ax, F, iv, sign) ==
  Ok(<<ax.rv,
       Arr([j \in 1..Len(iv) |->
          VMul(VMul(VReal(ax.div), F[ax.sort[j]]),
               VExp(VNum(QZero, QMul(QInt(sign), QMul(ax.rv[j], iv[1])))))])>>)

Fourier(iv, function) ==
  IF Len(iv) < 2 THEN Raise("IndexError")
  ELSE IF Len(function) = 0 THEN Raise("ValueError")
  ELSE IF Len(function) < Len(iv) THEN Raise("IndexError")
  ELSE IF iv[2] = iv[1]
    THEN Ok(<<Arr([j \in 1..Len(iv) |-> QNonFinite]), Arr([j \in 1..Len(iv) |-> NonFinite])>>)
  ELSE Shifted(ReciprocalAxis(iv), Fft(function), iv, -1)

InverseFourier(iv, function) ==
  IF Len(iv) < 2 THEN Raise("IndexError")
  ELSE IF Len(function) = 0 THEN Raise("ValueError")
  ELSE IF Len(function) < Len(iv) THEN Raise("IndexError")
  ELSE IF iv[2] = iv[1]
    THEN Ok(<<Arr([j \in 1..Len(iv) |-> QNonFinite]), Arr([j \in 1..Len(iv) |-> NonFinite])>>)
  ELSE Shifted(ReciprocalAxis(iv), Ifft(function), iv, 1)

----------------------------------------------------------------------------
(* Photoluminescence.Trapezoidal *)

(* an integral that takes a grid of fewer than 2 samples as one of step 0 *)
Trapezoidal_short(integrand, iv, equally_spaced) ==
  LET div == IF Len(iv) < 2 THEN QZero ELSE QSub(iv[2], iv[1])
      n == Len(integrand)
  IN  IF n = 0 THEN Ok(VZero)
      ELSE Ok(VMul(VReal(QDiv(div, QInt(2))),
                   VAdd(VAdd(VSum(SubSeq(integrand, 2, n - 1)), integrand[1]),
                        integrand[n])))

Trapezoidal(integrand, iv, equally_spaced) ==
  IF Len(iv) < 2 THEN Raise("IndexError")
  ELSE LET div == QSub(iv[2], iv[1])
           n == Len(integrand)
       IN  IF equally_spaced
             THEN IF n = 0 THEN Raise("IndexError")
                  ELSE Ok(VMul(VReal(QDiv(div, QInt(2))),
                               VAdd(VAdd(VSum(SubSeq(integrand, 2, n - 1)), integrand[1]),
                                    integrand[n])))
             ELSE IF n < Len(iv) THEN Raise("IndexError")
                  ELSE Ok(VSum(Arr([i \in 1..(Len(iv) - 1) |->
                                  VMul(VReal(QDiv(QSub(iv[i + 1], iv[i]), QInt(2))),
                                       VAdd(integrand[i + 1], integrand[i]))])))

----------------------------------------------------------------------------
(* numpy broadcasting of two arrays along their first axis: equal lengths, *)
(* or one of them of length 1, which is repeated; a ValueError otherwise.  *)

CanBroadcast(m, n) == m = n \/ m = 1 \/ n = 1
BroadcastLen(m, n) == IF m = 1 THEN n ELSE m
At(a, i) == IF Len(a) = 1 THEN a[1] ELSE a[i]

----------------------------------------------------------------------------
(* Unit conversions and broadening kernels *)

FreqToEnergy(freqs) == Arr([i \in 1..Len(freqs) |-> QMul(Q(413566, 100000), freqs[i])])

TimeScaling(t, reverse) ==
  IF reverse = FALSE THEN QDiv(t, Q(6582119, 10000)) ELSE QMul(t, Q(6582119, 10000))

Lorentzian(x, x0, sigma) ==
  LET w == QMul(sigma, Q(8, 10))
      d == QSub(x, x0)
  IN  VReal(QDiv(QMul(QDiv(QOne, PI), w), QAdd(QMul(w, w), QMul(d, d))))

Gaussian(x, x0, sigma) ==
  LET d == QSub(x, x0)
  IN  VMul(VDiv(VOne, VSqrt(QMul(QMul(QInt(2), PI), QMul(sigma, sigma)))),
           VExp(VReal(QDiv(QNeg(QMul(d, d)), QMul(QInt(2), QMul(sigma, sigma))))))

----------------------------------------------------------------------------
(* Huang-Rhys engine.  masses: 1-D; R_es, R_gs: rows of 3 coordinates;     *)
(* modes: per mode, per atom, 3 components.                                *)

ConfigCoordinates(masses, R_es, R_gs, modes) ==
  IF ~CanBroadcast(Len(R_es), Len(R_gs)) THEN Raise("ValueError")
  ELSE
    LET sq == Arr([i \in 1..Len(masses) |-> VSqrt(masses[i])])
        rows == BroadcastLen(Len(R_es), Len(R_gs))
        R_diff == Arr([i \in 1..rows |->
                     Arr([x \in 1..3 |-> QSub(At(R_es, i)[x], At(R_gs, i)[x])])])
        mR_diff == Arr([i \in 1..Len(masses) |->
                      Arr([x \in 1..3 |-> VMul(sq[i], VReal(R_diff[i][x]))])])
        Proj(mode) ==
          VSum(Arr([c \in 1..(3 * BroadcastLen(Len(masses), Len(mode))) |->
                  LET i == ((c - 1) \div 3) + 1
                      x == ((c - 1) % 3) + 1
                  IN  VMul(At(mR_diff, i)[x], VReal(At(mode, i)[x]))]))
    IN  IF Len(masses) > rows THEN Raise("IndexError")
        ELSE IF Len(masses) = 0 /\ Len(modes) > 0 THEN Raise("ValueError")
        ELSE IF \E k \in 1..Len(modes) : ~CanBroadcast(Len(masses), Len(modes[k]))
          THEN Raise("ValueError")
        ELSE Ok(Arr([k \in 1..Len(modes) |-> Proj(modes[k])]))

PartialHR(freqs, qk) ==
  IF ~CanBroadcast(Len(freqs), Len(qk)) THEN Raise("ValueError")
  ELSE Ok(Arr([i \in 1..BroadcastLen(Len(freqs), Len(qk)) |->
             VDiv(VMul(VMul(VReal(QMul(QMul(QInt(2), PI), At(freqs, i))),
                            VPow(At(qk, i), 2)),
                       VReal(Q(166, 1000))),
                  VReal(QMul(QInt(2), Q(105457, 100000))))]))

----------------------------------------------------------------------------
(* Spectral pipeline stages *)

SpectralFunction(Sk, Ek, E_meV_positive, sigma, Lorentz) ==
  IF Len(Sk) # Len(Ek) THEN Raise("ValueError")
  ELSE Ok(Arr([i \in 1..Len(E_meV_positive) |->
             VDot(Sk, Arr([k \in 1..Len(Ek) |->
                         IF Lorentz = FALSE
                           THEN Gaussian(E_meV_positive[i], Ek[k], sigma)
                           ELSE Lorentzian(E_meV_positive[i], Ek[k], sigma)]))]))

(* S_t_exact = np.dot(Sk, np.exp(-1j * np.outer(Ek, t_meV))) (line 242) *)
ExactTransform(Sk, Ek, t_meV) ==
  Arr([i \in 1..Len(t_meV) |->
     VDot(Sk, Arr([k \in 1..Len(Ek) |->
                 VExp(VNum(QZero, QNeg(QMul(Ek[k], t_meV[i]))))]))])

WithExact(ft, Sk, Ek) ==
  IF ft.err # "" THEN ft
  ELSE IF Len(Sk) # Len(Ek) THEN Raise("ValueError")
  ELSE Ok(<<ft.val[1], ft.val[2], ExactTransform(Sk, Ek, ft.val[1])>>)

FourierSpectralFunction(Sk, Ek, S_E, E_meV_positive) ==
  WithExact(Fourier(E_meV_positive, S_E), Sk, Ek)

GeneratingFunction(Sk, S_t) ==
  Arr([i \in 1..Len(S_t) |-> VExp(VSub(S_t[i], VSum(Sk)))])

(* G_t * exp(1j*zpl*t_meV) * exp(-gamma*|t_meV|) (line 260) *)
Damped(G_t, t_meV, zpl, gamma) ==
  Arr([i \in 1..BroadcastLen(Len(G_t), Len(t_meV)) |->
     VMul(VMul(At(G_t, i), VExp(VNum(QZero, QMul(zpl, At(t_meV, i))))),
          VExp(VReal(QNeg(QMul(gamma, QAbs(At(t_meV, i)))))))])

(* E_meV, (1/len(t_meV)) * A_E (line 262) *)
Scaled(ft, n) ==
  IF ft.err # "" THEN ft
  ELSE Ok(<<ft.val[1],
            Arr([i \in 1..Len(ft.val[2]) |-> VMul(VReal(Q(1, n)), ft.val[2][i])])>>)

OpticalSpectralFunction(G_t, t_meV, zpl, gamma) ==
  IF ~CanBroadcast(Len(G_t), Len(t_meV)) THEN Raise("ValueError")
  ELSE Scaled(Fourier(t_meV, Damped(G_t, t_meV, zpl, gamma)), Len(t_meV))

(* The boolean mask (E_meV >= zpl - 500) & (E_meV <= zpl + 100), as the    *)
(* ascending list of the selected indices                                  *)
WindowMask(E_meV, zpl) ==
  SelectSeq(Arr([i \in 1..Len(E_meV) |-> i]),
            LAMBDA i : QLe(QSub(zpl, QInt(500)), E_meV[i])
                       /\ QLe(E_meV[i], QAdd(zpl, QInt(100))))

(* A mis-aligned restriction: the first samples of A_E instead of the masked ones *)
LuminescenceIntensity_misaligned(E_meV, A_E, zpl) ==
  IF Len(A_E) # Len(E_meV) THEN Raise("IndexError")
  ELSE
    LET mask == WindowMask(E_meV, zpl)
        E_sel == Arr([j \in 1..Len(mask) |-> E_meV[mask[j]]])
        w == Arr([j \in 1..Len(mask) |-> VMul(VPow(VReal(E_sel[j]), 3), A_E[j])])
        T == Trapezoidal(w, E_sel, TRUE)
    IN  IF T.err # "" THEN T
        ELSE Ok(<<E_sel, Arr([j \in 1..Len(mask) |-> VDiv(w[j], T.val)])>>)

(* A normalisation by the plain sum of the weighted samples *)
LuminescenceIntensity_sumnorm(E_meV, A_E, zpl) ==
  IF Len(A_E) # Len(E_meV) THEN Raise("IndexError")
  ELSE
    LET mask == WindowMask(E_meV, zpl)
        E_sel == Arr([j \in 1..Len(mask) |-> E_meV[mask[j]]])
        w == Arr([j \in 1..Len(mask) |-> VMul(VPow(VReal(E_sel[j]), 3), A_E[mask[j]])])
        T == Trapezoidal(w, E_sel, TRUE)
    IN  IF T.err # "" THEN T
        ELSE Ok(<<E_sel, Arr([j \in 1..Len(mask) |-> VDiv(w[j], VSum(w))])>>)

LuminescenceIntensity(E_meV, A_E, zpl) ==
  IF Len(A_E) # Len(E_meV) THEN Raise("IndexError")
  ELSE
    LET mask == WindowMask(E_meV, zpl)
        A_sel == Arr([j \in 1..Len(mask) |-> A_E[mask[j]]])
        E_sel == Arr([j \in 1..Len(mask) |-> E_meV[mask[j]]])
        w == Arr([j \in 1..Len(mask) |-> VMul(VPow(VReal(E_sel[j]), 3), A_sel[j])])
        T == Trapezoidal(w, E_sel, TRUE)
    IN  IF T.err # "" THEN T
        ELSE Ok(<<E_sel, Arr([j \in 1..Len(mask) |-> VDiv(w[j], T.val)])>>)

----------------------------------------------------------------------------
(* Direct calls of the primitives: one call per behaviour, its arguments   *)
(* drawn from bounded sets, its result (or exception) in out.              *)

MaxIv == 3
MaxRv == 7
MaxAtoms == 3
MaxModes == 2
MaxSamples == 4
MaxOrigin == 1

NoCall == [op |-> "none", args |-> <<>>]
Locals ==
  {"R_gs", "R_es", "masses", "freqs", "modes", "Ek", "qk", "Sk", "E_meV_positive",
   "S_E", "t_meV", "S_t", "S_t_exact", "G_t", "E_meV", "A_E", "L_E", "t_fs"}
NoRun ==
  /\ pc = "idle" /\ argv = <<>> /\ files = <<>> /\ trace = <<>> /\ err = ""
  /\ loc = [v \in Locals |-> <<>>] /\ ret = <<>>
InitCalls == call = NoCall /\ out = Raise("none") /\ NoRun

Ints(lo, hi) == {QInt(i) : i \in lo..hi}

(* ---- IV ---- *)
RvSet == {Q(n, d) : n \in (-MaxRv)..MaxRv, d \in {1, 2}}
           \cup {QMul(PI, QInt(n)) : n \in 1..MaxRv}

(* the arguments are floats *)
IsFloat(q) == Fl(q) = q

CallIV ==
  /\ call = NoCall
  /\ UNCHANGED runVars
  /\ \E low \in Ints(-MaxIv, MaxIv), high \in Ints(-MaxIv, MaxIv), rv \in RvSet :
       /\ IsFloat(low) /\ IsFloat(high) /\ IsFloat(rv)
       /\ call' = [op |-> "IV", args |-> <<low, high, rv>>]
       /\ out' = IV(low, high, rv)

SpecGrid == InitCalls /\ [][CallIV]_vars

(* ---- ConfigCoordinates, PartialHR ---- *)
MassesOf(m) == Arr([i \in 1..m |-> QInt(i * i)])
RowsOf(r, a, b) == Arr([i \in 1..r |-> <<QInt(a * i), QInt(b), QInt(i - 1)>>])
ModesOf(k, atoms) ==
  Arr([m \in 1..k |-> Arr([i \in 1..atoms |-> <<QInt(m), QInt(i), QInt(m - i)>>])])

CallConfigCoordinates ==
  /\ call = NoCall
  /\ UNCHANGED runVars
  /\ \E m \in 1..MaxAtoms, re \in 1..MaxAtoms, rg \in 1..MaxAtoms,
        atoms \in 1..MaxAtoms, k \in 0..MaxModes :
       /\ call' = [op |-> "ConfigCoordinates",
                   args |-> <<MassesOf(m), RowsOf(re, 2, 1), RowsOf(rg, 1, 0),
                              ModesOf(k, atoms), atoms>>]
       /\ out' = ConfigCoordinates(MassesOf(m), RowsOf(re, 2, 1), RowsOf(rg, 1, 0),
                                   ModesOf(k, atoms))

CallPartialHR ==
  /\ call = NoCall
  /\ UNCHANGED runVars
  /\ \E nf \in 0..MaxAtoms, nq \in 0..MaxAtoms :
       LET freqs == Arr([i \in 1..nf |-> QInt(i)])
           qk == Arr([i \in 1..nq |-> VReal(Q(i, 10))])
       IN  /\ call' = [op |-> "PartialHR", args |-> <<freqs, qk>>]
           /\ out' = PartialHR(freqs, qk)

SpecHR == InitCalls /\ [][CallConfigCoordinates \/ CallPartialHR]_vars

(* ---- LuminescenceIntensity ---- *)
UniformGrid(lo, step, n) == Arr([i \in 1..n |-> QInt(lo + (i - 1) * step)])
SampleValues == {VOne, VReal(QInt(-1)), VNum(QZero, QOne)}
SeqsOf(S, n) == [1..n -> S]
LumZpl == {QInt(500), QInt(-100)}

CallLuminescenceIntensity ==
  /\ call = NoCall
  /\ UNCHANGED runVars
  /\ \E n \in 0..MaxSamples, lo \in -2..-1, step \in 0..2, zpl \in LumZpl :
       \E A \in SeqsOf(SampleValues, n) \cup SeqsOf({VOne}, n + 1) :
         /\ call' = [op |-> "LuminescenceIntensity",
                     args |-> <<UniformGrid(lo, step, n), A, zpl>>]
         /\ out' = LuminescenceIntensity(UniformGrid(lo, step, n), A, zpl)

SpecLum == InitCalls /\ [][CallLuminescenceIntensity]_vars

(* ---- Fourier, then InverseFourier on its output ---- *)
FourierLens == {2, 4}
FourierValues == {VZero, VOne, VNum(QZero, QOne)}

CallFourier ==
  /\ call = NoCall
  /\ UNCHANGED runVars
  /\ \E n \in FourierLens, step \in 1..2, m \in (-MaxOrigin)..MaxOrigin :
       \E f \in SeqsOf(FourierValues, n) :
         /\ call' = [op |-> "Fourier", args |-> <<UniformGrid(m * step, step, n), f>>]
         /\ out' = Fourier(UniformGrid(m * step, step, n), f)

(* InverseFourier(iv, function) applied to Fourier's output (rv, DFT), or  *)
(* to the transform on the original grid; args keeps the original f        *)
CallInverseFourier ==
  /\ call.op = "Fourier"
  /\ UNCHANGED runVars
  /\ out.err = ""
  /\ \E grid \in {"rv", "iv"} :
       /\ call' = [op |-> "InverseFourier", args |-> <<call.args[1], call.args[2], grid>>]
       /\ out' = InverseFourier(IF grid = "rv" THEN out.val[1] ELSE call.args[1],
                                out.val[2])

SpecFourier == InitCalls /\ [][CallFourier \/ CallInverseFourier]_vars

----------------------------------------------------------------------------
(* Claims about the direct calls *)

IsCall(op) == call.op = op

(* C2: ConfigCoordinates with masses / rows / atom dimension not all equal, *)
(* and PartialHR with len(freqs) # len(qk), end in an error.               *)
C2_FailFast ==
  /\ (IsCall("ConfigCoordinates")
        /\ ~(Len(call.args[1]) = Len(call.args[2])
               /\ Len(call.args[2]) = Len(call.args[3])
               /\ Len(call.args[3]) = call.args[5]))
       => out.err # ""
  /\ (IsCall("PartialHR") /\ Len(call.args[1]) # Len(call.args[2]))
       => out.err # ""

(* a call with fewer masses than rows and eigenvector atoms that returned *)
C2_Witness ==
  /\ IsCall("ConfigCoordinates")
  /\ Len(call.args[1]) < Len(call.args[2])
  /\ Len(call.args[2]) = Len(call.args[3])
  /\ Len(call.args[3]) = call.args[5]
  /\ Len(call.args[4]) >= 1
  /\ out.err = ""
  /\ Len(out.val) = Len(call.args[4])

(* Number of samples of E inside [zpl - 500, zpl + 100] *)
InWindow(e, zpl) == QLe(QSub(zpl, QInt(500)), e) /\ QLe(e, QAdd(zpl, QInt(100)))
WindowCount(E, zpl) == Cardinality({i \in 1..Len(E) : InWindow(E[i], zpl)})

(* C3: with fewer than 2 samples of the grid inside the window,            *)
(* LuminescenceIntensity ends in an error and returns nothing.             *)
C3_DegenerateWindowFails ==
  (IsCall("LuminescenceIntensity") /\ WindowCount(call.args[1], call.args[3]) < 2)
    => (out.err # "" /\ out.val = <<>>)

C3_Witness ==
  /\ IsCall("LuminescenceIntensity")
  /\ Len(call.args[1]) = Len(call.args[2])
  /\ Len(call.args[1]) >= 3
  /\ WindowCount(call.args[1], call.args[3]) = 1
  /\ out.err = "IndexError"

(* C4: IV with max_reciprocal <= 0 or high <= low ends in an error.        *)
C4_GridRejectsInvalid ==
  (IsCall("IV") /\ (QLe(call.args[3], QZero) \/ QLe(call.args[2], call.args[1])))
    => out.err # ""

(* a call with a negative max_reciprocal that returned the empty sequence *)
C4_Witness ==
  /\ IsCall("IV")
  /\ QLt(call.args[1], call.args[2])
  /\ QLt(call.args[3], QZero)
  /\ out = Ok(<<>>)

(* C5: for low < high and max_reciprocal > 0, IV returns low, low + d, ... *)
(* with d = pi / max_reciprocal: first sample low, consecutive samples d   *)
(* apart, every sample in [low, high), and last sample + d >= high.  The   *)
(* step and the spacing are compared up to the rounding of the floats      *)
(* (Close); the bounds low <= s < high and the maximality are not.         *)
Close(a, b, scale) ==
  QLe(QMul(QAbs(QSub(a, b)), QInt(Pow2(MantBits - 3))), scale)

C5_GridContract ==
  (IsCall("IV") /\ QLt(call.args[1], call.args[2]) /\ QLt(QZero, call.args[3]))
    => LET low == call.args[1]
           high == call.args[2]
           d == QDiv(PI, call.args[3])
           g == out.val
           scale == QAdd(QAdd(QAbs(low), QAbs(high)), d)
       IN  /\ out.err = ""
           /\ Len(g) >= 1
           /\ g[1] = low
           /\ \A i \in 1..(Len(g) - 1) : Close(QSub(g[i + 1], g[i]), d, scale)
           /\ \A i \in 1..Len(g) : QLe(low, g[i]) /\ QLt(g[i], high)
           /\ QLe(high, QAdd(g[Len(g)], d))

(* a call with valid arguments whose last returned sample is high itself *)
C5_Witness ==
  /\ IsCall("IV")
  /\ QLt(call.args[1], call.args[2])
  /\ QLt(QZero, call.args[3])
  /\ out.err = ""
  /\ Len(out.val) >= 2
  /\ out.val[Len(out.val)] = call.args[2]

(* The selected original indices, in order, stated without the model's mask *)
RECURSIVE Selected(_, _, _)
Selected(E, zpl, i) ==
  IF i > Len(E) THEN <<>>
  ELSE (IF InWindow(E[i], zpl) THEN <<i>> ELSE <<>>) \o Selected(E, zpl, i + 1)

(* C6: on every call that returns, the returned energies are exactly the   *)
(* input samples inside the window in their original order, L has the same *)
(* length, and every L[j] is E^3 * A at the same original index over one   *)
(* common constant (L is proportional to the weighted samples and vanishes *)
(* only where they do); no sample outside the window appears.              *)
C6_SameSelection ==
  (IsCall("LuminescenceIntensity") /\ out.err = "")
    => LET E == call.args[1]
           A == call.args[2]
           idx == Selected(E, call.args[3], 1)
           W(j) == VMul(VPow(VReal(E[idx[j]]), 3), A[idx[j]])
           L == out.val[2]
       IN  /\ out.val[1] = Arr([j \in 1..Len(idx) |-> E[idx[j]]])
           /\ Len(L) = Len(idx)
           /\ \A j \in 1..Len(idx) : InWindow(out.val[1][j], call.args[3])
           /\ \A j, k \in 1..Len(idx) : VMul(L[j], W(k)) = VMul(L[k], W(j))
           /\ \A j \in 1..Len(idx) : IsNaN(L[j]) \/ (L[j] = VZero <=> W(j) = VZero)

C6_Witness ==
  /\ IsCall("LuminescenceIntensity")
  /\ out.err = ""
  /\ Len(out.val[1]) >= 2
  /\ Len(out.val[1]) < Len(call.args[1])
  /\ InWindow(call.args[1][Len(call.args[1])], call.args[3])
  /\ \A j \in 1..Len(out.val[2]) : IsNum(out.val[2][j])
  /\ \E j, k \in 1..Len(out.val[2]) : out.val[2][j] # out.val[2][k]

(* The weighted integral Trapezoidal(E^3 * A) over the restricted grid *)
WeightedIntegral(E, A, zpl) ==
  LET idx == Selected(E, zpl, 1)
  IN  Trapezoidal(Arr([j \in 1..Len(idx) |-> VMul(VPow(VReal(E[idx[j]]), 3), A[idx[j]])]),
                  Arr([j \in 1..Len(idx) |-> E[idx[j]]]), TRUE)

(* C7: when the window holds at least 2 samples and the weighted integral  *)
(* is non-zero, Trapezoidal of the returned L over the returned grid is 1. *)
C7_Normalised ==
  (/\ IsCall("LuminescenceIntensity")
   /\ Len(call.args[1]) = Len(call.args[2])
   /\ WindowCount(call.args[1], call.args[3]) >= 2
   /\ WeightedIntegral(call.args[1], call.args[2], call.args[3]).val # VZero)
    => /\ out.err = ""
       /\ Trapezoidal(out.val[2], out.val[1], TRUE) = Ok(VOne)

C7_Witness ==
  /\ IsCall("LuminescenceIntensity")
  /\ out.err = ""
  /\ Len(out.val[1]) >= 3
  /\ Len(out.val[1]) < Len(call.args[1])
  /\ \E j \in 1..Len(out.val[2]) : out.val[2][j].im # QZero
  /\ Trapezoidal(out.val[2], out.val[1], TRUE) = Ok(VOne)

(* C9: InverseFourier applied to the output of Fourier(iv, f) reproduces f *)
C9_RoundTrip ==
  IsCall("InverseFourier") => (out.err = "" /\ out.val[2] = call.args[2])

(* a round trip on the reciprocal grid that returned other values than f *)
C9_Witness ==
  /\ IsCall("InverseFourier")
  /\ call.args[3] = "rv"
  /\ out.err = ""
  /\ Len(out.val[2]) = Len(call.args[2])
  /\ \A j \in 1..Len(out.val[2]) : IsNum(out.val[2][j])
  /\ out.val[2] # call.args[2]

----------------------------------------------------------------------------
(* The file readers.  A structure file is its parsed fields; a band file   *)
(* is its masses and, per "frequency:" line, the frequency and eigenvector. *)

RECURSIVE SumNat(_)
SumNat(s) == IF Len(s) = 0 THEN 0 ELSE s[1] + SumNat(Tail(s))

(* the positions ReadStructure returns (the species dictionary is unused) *)
ReadStructure(file) ==
  LET tot == SumNat(file.number_of_atoms)
      lattice_vectors ==
        Arr([r \in 1..3 |-> Arr([c \in 1..3 |-> QMul(file.scaling_factor, file.lattice_vectors[r][c])])])
      atomic_positions == SubSeq(file.atomic_positions, 1, tot)
      Dot(row) ==
        Arr([c \in 1..3 |->
           QAdd(QAdd(QMul(row[1], lattice_vectors[1][c]), QMul(row[2], lattice_vectors[2][c])),
                QMul(row[3], lattice_vectors[3][c]))])
  IN  IF Len(file.atomic_positions) < tot THEN Raise("IndexError")
      ELSE IF file.lattice_type = "Direct"
        THEN Ok(Arr([i \in 1..tot |-> Dot(atomic_positions[i])]))
        ELSE Ok(atomic_positions)

ReadPhononBands(file) ==
  LET total_atoms == Len(file.masses)
      raw == Arr([m \in 1..Len(file.bands) |-> file.bands[m].frequency])
  IN  IF \E m \in 1..Len(file.bands) : Len(file.bands[m].eigenvector) < total_atoms
        THEN Raise("IndexError")
      ELSE Ok(<<file.masses,
                Arr([m \in 1..Len(raw) |-> IF QLt(raw[m], QZero) THEN QZero ELSE raw[m]]),
                Arr([m \in 1..Len(file.bands) |->
                   SubSeq(file.bands[m].eigenvector, 1, total_atoms)])>>)

(* a[:int(a.shape[0]/2)] with the ceiling in place of the floor *)
FirstHalf_ceil(a) == SubSeq(a, 1, (Len(a) + 1) \div 2)

(* a[:int(a.shape[0]/2)] *)
FirstHalf(a) == SubSeq(a, 1, Len(a) \div 2)

----------------------------------------------------------------------------
(* CalculateSpectrum, one action per statement.  An exception ends the run. *)

MaxRunAtoms == 2
MaxRawModes == 4

StructureFile(n, dx, type) ==
  [scaling_factor |-> QInt(2),
   lattice_vectors |-> <<<<QOne, QZero, QZero>>, <<QZero, QOne, QZero>>, <<QZero, QZero, QOne>>>>,
   number_of_atoms |-> <<n>>,
   lattice_type |-> type,
   atomic_positions |-> Arr([i \in 1..n |-> <<Q(dx * i, 10), QZero, QInt(i)>>])]

(* raw frequencies (THz), in units of 10 meV / 4.13566; the first is negative *)
RawFrequencies == <<-1, 2, 4, 1, 3, 5, 6>>

BandFile(atoms, n, first) ==
  [masses |-> Arr([i \in 1..atoms |-> QInt((i + 2) * (i + 2))]),
   bands |-> Arr([m \in 1..n |->
                [frequency |-> QMul(QInt(RawFrequencies[((m - 1 + first) % Len(RawFrequencies)) + 1]),
                                    Q(500000, 206783)),
                 eigenvector |-> Arr([i \in 1..atoms |->
                                    <<QInt((m + i) % 2), QInt(m % 2), QZero>>])]])]

(* zpl (meV), tmax (fs), gamma (meV); tmax = k * 658.2119 fs *)
TMax(n, d) == QMul(Q(n, d), Q(6582119, 10000))
RunArgs ==
  {[zpl |-> QInt(400), tmax |-> TMax(1, 128), gamma |-> QInt(4)],
   [zpl |-> QInt(400), tmax |-> TMax(1, 64), gamma |-> QInt(4)],
   [zpl |-> QInt(800), tmax |-> TMax(1, 128), gamma |-> QInt(4)],
   [zpl |-> QInt(800), tmax |-> TMax(1, 256), gamma |-> QInt(4)],
   [zpl |-> QInt(100), tmax |-> TMax(1, 128), gamma |-> QInt(4)],
   [zpl |-> QInt(400), tmax |-> QZero, gamma |-> QInt(4)],
   [zpl |-> QZero, tmax |-> TMax(1, 512), gamma |-> QInt(4)]}

Init ==
  /\ call = NoCall /\ out = Raise("none")
  /\ pc = "ReadStructure_gs" /\ trace = <<>> /\ err = "" /\ ret = <<>>
  /\ loc = [v \in Locals |-> <<>>]
  /\ argv \in RunArgs
  /\ \E gs \in 1..MaxRunAtoms, es \in 1..MaxRunAtoms, atoms \in 1..MaxRunAtoms,
        n \in 0..MaxRawModes, first \in 0..1 :
       LET type == IF first = 0 THEN "Direct" ELSE "Cartesian" IN
       files = [gs |-> StructureFile(gs, 0, type), es |-> StructureFile(es, 1, type),
                band |-> BandFile(atoms, n, first)]

(* the statement at pc runs: it assigns (Goto) or raises (Abort) *)
Enter(stmt) ==
  /\ pc = stmt
  /\ trace' = Append(trace, stmt)
  /\ UNCHANGED <<call, out, argv, files>>
Goto(next, newloc) == pc' = next /\ loc' = newloc /\ err' = err /\ ret' = ret
Abort(e) == pc' = "error" /\ loc' = loc /\ err' = e /\ ret' = ret

Stmt_ReadStructure_gs ==
  /\ Enter("ReadStructure_gs")
  /\ LET r == ReadStructure(files.gs)
     IN  IF r.err # "" THEN Abort(r.err)
         ELSE Goto("ReadStructure_es", [loc EXCEPT !.R_gs = r.val])

Stmt_ReadStructure_es ==
  /\ Enter("ReadStructure_es")
  /\ LET r == ReadStructure(files.es)
     IN  IF r.err # "" THEN Abort(r.err)
         ELSE Goto("ReadPhononBands", [loc EXCEPT !.R_es = r.val])

Stmt_ReadPhononBands ==
  /\ Enter("ReadPhononBands")
  /\ LET r == ReadPhononBands(files.band)
     IN  IF r.err # "" THEN Abort(r.err)
         ELSE Goto("Truncate_freqs", [loc EXCEPT !.masses = r.val[1], !.freqs = r.val[2],
                                           !.modes = r.val[3]])

(* line 292 *)
Stmt_Truncate_freqs ==
  /\ Enter("Truncate_freqs")
  /\ Goto("Truncate_modes", [loc EXCEPT !.freqs = FirstHalf(loc.freqs)])

(* line 293 *)
Stmt_Truncate_modes ==
  /\ Enter("Truncate_modes")
  /\ Goto("FreqToEnergy", [loc EXCEPT !.modes = FirstHalf(loc.modes)])

Stmt_FreqToEnergy ==
  /\ Enter("FreqToEnergy")
  /\ Goto("ConfigCoordinates", [loc EXCEPT !.Ek = FreqToEnergy(loc.freqs)])

Stmt_ConfigCoordinates ==
  /\ Enter("ConfigCoordinates")
  /\ LET r == ConfigCoordinates(loc.masses, loc.R_es, loc.R_gs, loc.modes)
     IN  IF r.err # "" THEN Abort(r.err)
         ELSE Goto("PartialHR", [loc EXCEPT !.qk = r.val])

Stmt_PartialHR ==
  /\ Enter("PartialHR")
  /\ LET r == PartialHR(loc.freqs, loc.qk)
     IN  IF r.err # "" THEN Abort(r.err)
         ELSE Goto("IV", [loc EXCEPT !.Sk = r.val])

(* lines 301-306: Emax, tmax_meV and the energy grid *)
Stmt_IV ==
  /\ Enter("IV")
  /\ LET Emax == IF argv.zpl # QZero THEN QMul(Q(25, 10), argv.zpl) ELSE QInt(5000)
         tmax_meV == TimeScaling(argv.tmax, FALSE)
         r == IV(QZero, Emax, tmax_meV)
     IN  IF r.err # "" THEN Abort(r.err)
         ELSE Goto("SpectralFunction", [loc EXCEPT !.E_meV_positive = r.val])

Stmt_SpectralFunction ==
  /\ Enter("SpectralFunction")
  /\ LET r == SpectralFunction(loc.Sk, loc.Ek, loc.E_meV_positive, QInt(6), FALSE)
     IN  IF r.err # "" THEN Abort(r.err)
         ELSE Goto("FourierSpectralFunction", [loc EXCEPT !.S_E = r.val])

Stmt_FourierSpectralFunction ==
  /\ Enter("FourierSpectralFunction")
  /\ LET r == FourierSpectralFunction(loc.Sk, loc.Ek, loc.S_E, loc.E_meV_positive)
     IN  IF r.err # "" THEN Abort(r.err)
         ELSE Goto("GeneratingFunction",
                   [loc EXCEPT !.t_meV = r.val[1], !.S_t = r.val[2], !.S_t_exact = r.val[3]])

(* G(t) fed with the exact S(t) *)
Stmt_GeneratingFunction_exact ==
  /\ Enter("GeneratingFunction")
  /\ Goto("OpticalSpectralFunction",
          [loc EXCEPT !.G_t = GeneratingFunction(loc.Sk, loc.S_t_exact)])

Stmt_GeneratingFunction ==
  /\ Enter("GeneratingFunction")
  /\ Goto("OpticalSpectralFunction",
          [loc EXCEPT !.G_t = GeneratingFunction(loc.Sk, loc.S_t)])

Stmt_OpticalSpectralFunction ==
  /\ Enter("OpticalSpectralFunction")
  /\ LET r == OpticalSpectralFunction(loc.G_t, loc.t_meV, argv.zpl, argv.gamma)
     IN  IF r.err # "" THEN Abort(r.err)
         ELSE Goto("LuminescenceIntensity", [loc EXCEPT !.E_meV = r.val[1], !.A_E = r.val[2]])

(* line 318 rebinds E_meV to the restricted grid *)
Stmt_LuminescenceIntensity ==
  /\ Enter("LuminescenceIntensity")
  /\ LET r == LuminescenceIntensity(loc.E_meV, loc.A_E, argv.zpl)
     IN  IF r.err # "" THEN Abort(r.err)
         ELSE Goto("TimeScaling", [loc EXCEPT !.E_meV = r.val[1], !.L_E = r.val[2]])

Stmt_TimeScaling ==
  /\ Enter("TimeScaling")
  /\ Goto("Return",
          [loc EXCEPT !.t_fs = Arr([i \in 1..Len(loc.t_meV) |-> TimeScaling(loc.t_meV[i], TRUE)])])

Stmt_Return ==
  /\ Enter("Return")
  /\ pc' = "done"
  /\ ret' = <<<<loc.Ek, loc.Sk>>, <<loc.E_meV_positive, loc.S_E>>,
              <<loc.t_fs, loc.S_t, loc.S_t_exact>>, loc.G_t, <<loc.E_meV, loc.A_E>>, loc.L_E>>
  /\ UNCHANGED <<loc, err>>

Next ==
  \/ Stmt_ReadStructure_gs
  \/ Stmt_ReadStructure_es
  \/ Stmt_ReadPhononBands
  \/ Stmt_Truncate_freqs
  \/ Stmt_Truncate_modes
  \/ Stmt_FreqToEnergy
  \/ Stmt_ConfigCoordinates
  \/ Stmt_PartialHR
  \/ Stmt_IV
  \/ Stmt_SpectralFunction
  \/ Stmt_FourierSpectralFunction
  \/ Stmt_GeneratingFunction
  \/ Stmt_OpticalSpectralFunction
  \/ Stmt_LuminescenceIntensity
  \/ Stmt_TimeScaling
  \/ Stmt_Return

Spec == Init /\ [][Next]_vars

----------------------------------------------------------------------------
(* Properties of a run of CalculateSpectrum *)

Ran(stmt) == \E i \in 1..Len(trace) : trace[i] = stmt

(* C1: in the returned tuple the energy grid paired with A(E) is the grid on *)
(* which that A(E) was computed: both have the same length and they are the  *)
(* pair OpticalSpectralFunction returned for the G(t) and time grid of the   *)
(* run.                                                                      *)
C1_PairConsistent ==
  pc = "done" =>
    /\ Len(ret[5][1]) = Len(ret[5][2])
    /\ ret[5] = OpticalSpectralFunction(loc.G_t, loc.t_meV, argv.zpl, argv.gamma).val

(* a run that returned after the window dropped at least one sample *)
C1_Witness ==
  pc = "done" /\ Len(ret[5][1]) < Len(ret[5][2]) /\ Len(ret[5][1]) = Len(ret[6])

Stages ==
  <<"IV", "SpectralFunction", "FourierSpectralFunction", "GeneratingFunction",
    "OpticalSpectralFunction", "LuminescenceIntensity">>

IsStage(stmt) == \E i \in 1..Len(Stages) : Stages[i] = stmt

(* C8: the spectral stages of a run execute in the order energy grid, S(E), *)
(* S(t)/S_exact(t), G(t), A(E), L(E), each once; G(t) is the generating      *)
(* function of the FFT-approximated S(t), A(E) and L(E) follow from that     *)
(* G(t), and S_exact(t) only reaches the returned tuple.                     *)
C8_StageOrder ==
  LET ran == SelectSeq(trace, IsStage)
  IN  /\ Len(ran) <= Len(Stages)
      /\ ran = SubSeq(Stages, 1, Len(ran))
      /\ Ran("GeneratingFunction") => loc.G_t = GeneratingFunction(loc.Sk, loc.S_t)
      /\ pc = "done" =>
            /\ ret[4] = GeneratingFunction(ret[1][2], ret[3][2])
            /\ ret[5][2] = OpticalSpectralFunction(ret[4], loc.t_meV, argv.zpl, argv.gamma).val[2]
            /\ ret[3][3] = loc.S_t_exact
            /\ ret[3][3] = ExactTransform(loc.Sk, loc.Ek, loc.t_meV)

(* a run that returned although the two forms of S(t) differ *)
C8_Witness ==
  pc = "done" /\ ret[3][2] # ret[3][3] /\ SelectSeq(trace, IsStage) = Stages

(* C10: of the N loaded modes the run keeps the frequencies and the          *)
(* eigenvectors at the first N \div 2 indices, in order, and all the masses; *)
(* Ek, qk and Sk have N \div 2 entries once computed.                        *)
C10_FirstHalfKept ==
  LET loaded == ReadPhononBands(files.band).val
      half == Len(files.band.bands) \div 2
  IN  /\ Ran("Truncate_freqs") =>
            /\ Len(loc.freqs) = half
            /\ \A i \in 1..half : loc.freqs[i] = loaded[2][i]
      /\ Ran("Truncate_modes") =>
            /\ Len(loc.modes) = half
            /\ \A i \in 1..half : loc.modes[i] = loaded[3][i]
            /\ loc.masses = loaded[1]
      /\ Ran("FreqToEnergy") => Len(loc.Ek) = half
      /\ Ran("ConfigCoordinates") /\ pc # "error" => Len(loc.qk) = half
      /\ Ran("PartialHR") /\ pc # "error" => Len(loc.Sk) = half
      /\ pc = "done" => Len(ret[1][1]) = half /\ Len(ret[1][2]) = half

(* a run on an odd number of loaded modes that returned *)
C10_Witness ==
  pc = "done" /\ Len(files.band.bands) = 3 /\ Len(loc.Sk) = 1 /\ Len(loc.modes) = 1

====
